---- MODULE Spec2Model ----
(***************************************************************************)
(* Model of gestor_cumpleanos_csv.py: the record store (BirthdayManager),  *)
(* the message store (MessageManager), the upcoming-birthdays view and the *)
(* notifier pass of the script.                                            *)
(*                                                                         *)
(* Text is a sequence of one-character strings, so that the conversions    *)
(* the program performs (csv writing and reading, text-mode file reading,  *)
(* json, strftime/strptime, str/int) are modelled by what they do.         *)
(* An optional integer is <<>> (Python's None) or <<n>>.                   *)
(* A call's outcome is a record [ok, val, err]: err names the exception    *)
(* that propagated when ok is FALSE.                                       *)
(***************************************************************************)
EXTENDS Integers, Sequences, FiniteSets, TLC

VARIABLES
    bfile,      \* birthdays.csv: [exists, text]
    mfile,      \* messages.json: [exists, text]
    people,     \* bd_manager.people
    messages,   \* msg_manager.messages
    pc,         \* position of the script / of the operation under study
    i,          \* notifier loop: index of the next person
    today,      \* the value datetime.now().date() returned
    attempts,   \* notifier loop: indexes of the persons send_email was called for
    outbox,     \* deliveries the mail relay accepted: [to, subject, body]
    arg,        \* argument of the operation under study
    ret         \* outcome of the operation under study

vars == <<bfile, mfile, people, messages, pc, i, today, attempts, outbox, arg, ret>>

(***************************************************************************)
(* Bounds of the model.                                                    *)
(***************************************************************************)
MaxPeople == 2
MaxMessages == 1
MaxRoundTrip == 1
MaxView == 3
MaxPick == 2

(***************************************************************************)
(* Values and outcomes.                                                    *)
(***************************************************************************)
None == <<>>
Some(n) == <<n>>

Ok(v) == [ok |-> TRUE, val |-> v, err |-> "none"]
Raise(e) == [ok |-> FALSE, val |-> <<>>, err |-> e]

NoFile == [exists |-> FALSE, text |-> <<>>]
File(t) == [exists |-> TRUE, text |-> t]

(***************************************************************************)
(* str(int), int(str).                                                     *)
(***************************************************************************)
DigitChars == <<"0", "1", "2", "3", "4", "5", "6", "7", "8", "9">>

IsDigit(c) == \E d \in 1..10 : DigitChars[d] = c

DigitVal(c) == (CHOOSE d \in 1..10 : DigitChars[d] = c) - 1

AllDigits(s) == Len(s) >= 1 /\ \A k \in 1..Len(s) : IsDigit(s[k])

RECURSIVE str_nat(_)
str_nat(n) ==
    IF n < 10 THEN <<DigitChars[n + 1]>>
    ELSE str_nat(n \div 10) \o <<DigitChars[(n % 10) + 1]>>

str_int(n) == IF n < 0 THEN <<"-">> \o str_nat(0 - n) ELSE str_nat(n)

RECURSIVE nat_of(_)
nat_of(s) ==
    IF Len(s) = 1 THEN DigitVal(s[1])
    ELSE 10 * nat_of(SubSeq(s, 1, Len(s) - 1)) + DigitVal(s[Len(s)])

\* int(text): an optional sign and decimal digits, ValueError otherwise.
int_of(s) ==
    IF AllDigits(s) THEN Ok(nat_of(s))
    ELSE IF Len(s) >= 2 /\ s[1] \in {"-", "+"} /\ AllDigits(Tail(s))
         THEN Ok(IF s[1] = "-" THEN 0 - nat_of(Tail(s)) ELSE nat_of(Tail(s)))
         ELSE Raise("ValueError")

(***************************************************************************)
(* datetime.date: [year, month, day].                                      *)
(***************************************************************************)
Date(y, m, d) == [year |-> y, month |-> m, day |-> d]

is_leap(y) == y % 4 = 0 /\ (y % 100 # 0 \/ y % 400 = 0)

days_in_month(y, m) ==
    IF m = 2 THEN (IF is_leap(y) THEN 29 ELSE 28)
    ELSE IF m \in {4, 6, 9, 11} THEN 30 ELSE 31

RECURSIVE days_before_month(_, _)
days_before_month(y, m) ==
    IF m = 1 THEN 0 ELSE days_before_month(y, m - 1) + days_in_month(y, m - 1)

days_before_year(y) ==
    (y - 1) * 365 + ((y - 1) \div 4) - ((y - 1) \div 100) + ((y - 1) \div 400)

toordinal(d) == days_before_year(d.year) + days_before_month(d.year, d.month) + d.day

valid_date(y, m, d) ==
    /\ 1 <= y /\ y <= 9999
    /\ 1 <= m /\ m <= 12
    /\ 1 <= d /\ d <= days_in_month(y, m)

\* date.__lt__
date_lt(a, b) ==
    \/ a.year < b.year
    \/ a.year = b.year /\ a.month < b.month
    \/ a.year = b.year /\ a.month = b.month /\ a.day < b.day

\* date.replace(year=y): ValueError when the day does not exist in year y.
replace_year(d, y) ==
    IF valid_date(y, d.month, d.day) THEN Ok(Date(y, d.month, d.day))
    ELSE Raise("ValueError")

Pad2(n) == IF n < 10 THEN <<"0">> \o str_nat(n) ELSE str_nat(n)

\* date.strftime('%Y-%m-%d'); the years of the model have four digits, so the
\* C library's padding of %Y plays no part.
strftime(d) == str_nat(d.year) \o <<"-">> \o Pad2(d.month) \o <<"-">> \o Pad2(d.day)

\* datetime.strptime(text, '%Y-%m-%d').date(): four digits, one or two, one or two.
strptime(s) ==
    LET dashes == {k \in 1..Len(s) : s[k] = "-"} IN
    IF Cardinality(dashes) # 2 THEN Raise("ValueError")
    ELSE
        LET d1 == CHOOSE k \in dashes : \A j \in dashes : k <= j
            d2 == CHOOSE k \in dashes : \A j \in dashes : k >= j
            ys == SubSeq(s, 1, d1 - 1)
            ms == SubSeq(s, d1 + 1, d2 - 1)
            ds == SubSeq(s, d2 + 1, Len(s))
        IN  IF /\ AllDigits(ys) /\ Len(ys) = 4
               /\ AllDigits(ms) /\ Len(ms) <= 2
               /\ AllDigits(ds) /\ Len(ds) <= 2
               /\ valid_date(nat_of(ys), nat_of(ms), nat_of(ds))
            THEN Ok(Date(nat_of(ys), nat_of(ms), nat_of(ds)))
            ELSE Raise("ValueError")

(***************************************************************************)
(* Person                                                                  *)
(***************************************************************************)
\* Person.__init__ applied to a birthday already parsed.
Person(name, email, birthday, message_id) ==
    [name |-> name, email |-> email, birthday |-> birthday, message_id |-> message_id]

\* Person.__init__: the birthday text goes through strptime.
NewPerson(name, email, birthdayText, message_id) ==
    LET b == strptime(birthdayText) IN
    IF b.ok THEN Ok(Person(name, email, b.val, message_id)) ELSE Raise(b.err)

(***************************************************************************)
(* Files opened in text mode.                                              *)
(***************************************************************************)
\* Reading with the default newline=None: "\r\n" and "\r" arrive as "\n".
\* (The text is translated by halves to keep the evaluation shallow.)
RECURSIVE universal_newlines(_, _, _)
universal_newlines(t, lo, hi) ==
    IF lo > hi THEN <<>>
    ELSE IF lo = hi
         THEN IF t[lo] = "\r" THEN <<"\n">>
              ELSE IF t[lo] = "\n" /\ lo > 1 /\ t[lo - 1] = "\r" THEN <<>>
              ELSE <<t[lo]>>
         ELSE LET mid == (lo + hi) \div 2 IN
              universal_newlines(t, lo, mid) \o universal_newlines(t, mid + 1, hi)

\* open(filename, mode='r').read(): FileNotFoundError when the file is absent.
read_text(f) == IF f.exists THEN Ok(universal_newlines(f.text, 1, Len(f.text))) ELSE Raise("FileNotFoundError")

(***************************************************************************)
(* csv.writer (excel dialect, QUOTE_MINIMAL, lineterminator "\r\n").       *)
(***************************************************************************)
needs_quote(s) == \E k \in 1..Len(s) : s[k] \in {",", "\"", "\r", "\n"}

RECURSIVE double_quotes(_, _, _)
double_quotes(s, lo, hi) ==
    IF lo > hi THEN <<>>
    ELSE IF lo = hi THEN (IF s[lo] = "\"" THEN <<"\"", "\"">> ELSE <<s[lo]>>)
    ELSE LET mid == (lo + hi) \div 2 IN
         double_quotes(s, lo, mid) \o double_quotes(s, mid + 1, hi)

csv_field(s) == IF needs_quote(s) THEN <<"\"">> \o double_quotes(s, 1, Len(s)) \o <<"\"">> ELSE s

RECURSIVE join_fields(_, _)
join_fields(fields, k) ==
    IF k > Len(fields) THEN <<>>
    ELSE (IF k > 1 THEN <<",">> ELSE <<>>) \o csv_field(fields[k]) \o join_fields(fields, k + 1)

writerow(fields) == join_fields(fields, 1) \o <<"\r", "\n">>

(***************************************************************************)
(* csv.reader: the parser's state machine, fed the file line by line.      *)
(***************************************************************************)
EOL == "EOL"

ReaderInit == [state |-> "START_RECORD", field |-> <<>>, fields |-> <<>>, rows |-> <<>>, ok |-> TRUE]

save_field(st) == [st EXCEPT !.fields = Append(st.fields, st.field), !.field = <<>>]

add_char(st, c) == [st EXCEPT !.field = Append(st.field, c)]

end_of_record(st, c) ==
    [save_field(st) EXCEPT !.state = IF c = EOL THEN "START_RECORD" ELSE "EAT_CRNL"]

start_field(st, c) ==
    IF c \in {"\n", "\r", EOL} THEN end_of_record(st, c)
    ELSE IF c = "\"" THEN [st EXCEPT !.state = "IN_QUOTED_FIELD"]
    ELSE IF c = "," THEN [save_field(st) EXCEPT !.state = "START_FIELD"]
    ELSE [add_char(st, c) EXCEPT !.state = "IN_FIELD"]

parse_process_char(st, c) ==
    CASE st.state = "START_RECORD" ->
            IF c = EOL THEN st
            ELSE IF c \in {"\n", "\r"} THEN [st EXCEPT !.state = "EAT_CRNL"]
            ELSE start_field(st, c)
      [] st.state = "START_FIELD" -> start_field(st, c)
      [] st.state = "IN_FIELD" ->
            IF c \in {"\n", "\r", EOL} THEN end_of_record(st, c)
            ELSE IF c = "," THEN [save_field(st) EXCEPT !.state = "START_FIELD"]
            ELSE add_char(st, c)
      [] st.state = "IN_QUOTED_FIELD" ->
            IF c = EOL THEN st
            ELSE IF c = "\"" THEN [st EXCEPT !.state = "QUOTE_IN_QUOTED_FIELD"]
            ELSE add_char(st, c)
      [] st.state = "QUOTE_IN_QUOTED_FIELD" ->
            IF c = "\"" THEN [add_char(st, c) EXCEPT !.state = "IN_QUOTED_FIELD"]
            ELSE IF c = "," THEN [save_field(st) EXCEPT !.state = "START_FIELD"]
            ELSE IF c \in {"\n", "\r", EOL} THEN end_of_record(st, c)
            ELSE [add_char(st, c) EXCEPT !.state = "IN_FIELD"]
      [] st.state = "EAT_CRNL" ->
            IF c \in {"\n", "\r"} THEN st
            ELSE IF c = EOL THEN [st EXCEPT !.state = "START_RECORD"]
            ELSE [st EXCEPT !.ok = FALSE]

\* Reader.__next__ returns the fields once a line ends in START_RECORD.
end_of_line(st) ==
    LET s1 == parse_process_char(st, EOL) IN
    IF s1.ok /\ s1.state = "START_RECORD"
    THEN [s1 EXCEPT !.rows = Append(s1.rows, s1.fields), !.fields = <<>>]
    ELSE s1

\* End of input inside a record: the pending field and row are returned.
end_of_input(st) ==
    IF st.ok /\ (st.field # <<>> \/ st.state = "IN_QUOTED_FIELD")
    THEN [st EXCEPT !.rows = Append(st.rows, Append(st.fields, st.field)),
                    !.fields = <<>>, !.field = <<>>]
    ELSE st

\* The k-th character of the text; a line ends after "\n" and at the end of the text.
reader_char(t, k, st) ==
    IF ~st.ok THEN st
    ELSE LET s1 == parse_process_char(st, t[k])
             eol == t[k] = "\n" \/ k = Len(t)
         IN  IF s1.ok /\ eol THEN end_of_line(s1) ELSE s1

\* The characters lo..hi in order (by halves, to keep the evaluation shallow).
RECURSIVE reader_run(_, _, _, _)
reader_run(t, lo, hi, st) ==
    IF lo > hi THEN st
    ELSE IF lo = hi THEN reader_char(t, lo, st)
    ELSE LET mid == (lo + hi) \div 2
             s1 == reader_run(t, lo, mid, st)
         IN  IF s1.ok THEN reader_run(t, mid + 1, hi, s1) ELSE s1

\* list(csv.reader(f)) over the text the file object yields.
csv_reader(t) ==
    LET st == end_of_input(reader_run(t, 1, Len(t), ReaderInit)) IN
    IF st.ok THEN Ok(st.rows) ELSE Raise("csv.Error")

(***************************************************************************)
(* csv.DictReader: the first row names the fields, empty rows are skipped. *)
(***************************************************************************)
HasKey(fieldnames, key) == \E k \in 1..Len(fieldnames) : fieldnames[k] = key

KeyIndex(fieldnames, key) ==
    CHOOSE k \in 1..Len(fieldnames) :
        fieldnames[k] = key /\ \A j \in (k + 1)..Len(fieldnames) : fieldnames[j] # key

\* row[key]: [found, present, val]; a short row gives None (present FALSE).
dict_get(fieldnames, row, key) ==
    IF ~HasKey(fieldnames, key) THEN [found |-> FALSE, present |-> FALSE, val |-> <<>>]
    ELSE LET k == KeyIndex(fieldnames, key) IN
         IF k <= Len(row) THEN [found |-> TRUE, present |-> TRUE, val |-> row[k]]
         ELSE [found |-> TRUE, present |-> FALSE, val |-> <<>>]

(***************************************************************************)
(* BirthdayManager: the record store.                                      *)
(***************************************************************************)
K_name == <<"n", "a", "m", "e">>
K_email == <<"e", "m", "a", "i", "l">>
K_birthday == <<"b", "i", "r", "t", "h", "d", "a", "y">>
K_message_id == <<"m", "e", "s", "s", "a", "g", "e", "_", "i", "d">>

\* One row of the reader to a Person, in the order the code evaluates it.
row_person(fieldnames, row) ==
    LET n == dict_get(fieldnames, row, K_name)
        e == dict_get(fieldnames, row, K_email)
        b == dict_get(fieldnames, row, K_birthday)
        m == dict_get(fieldnames, row, K_message_id)
        \* int(row['message_id']) if row['message_id'] else None
        mid == IF m.present /\ m.val # <<>> THEN int_of(m.val) ELSE Ok(0)
        unset == ~(m.present /\ m.val # <<>>)
    IN  IF ~(n.found /\ e.found /\ b.found /\ m.found) THEN Raise("KeyError")
        ELSE IF ~mid.ok THEN Raise(mid.err)
        \* a row cut short leaves birthday None: strptime raises TypeError
        ELSE IF ~(n.present /\ e.present /\ b.present) THEN Raise("TypeError")
        ELSE NewPerson(n.val, e.val, b.val, IF unset THEN None ELSE Some(mid.val))

RECURSIVE load_rows(_, _, _, _)
load_rows(fieldnames, rows, k, acc) ==
    IF k > Len(rows) THEN Ok(acc)
    ELSE IF rows[k] = <<>> THEN load_rows(fieldnames, rows, k + 1, acc)
    ELSE LET p == row_person(fieldnames, rows[k]) IN
         IF p.ok THEN load_rows(fieldnames, rows, k + 1, Append(acc, p.val))
         ELSE Raise(p.err)

\* BirthdayManager.load_birthdays: only FileNotFoundError is caught.
load_birthdays(f) ==
    LET t == read_text(f) IN
    IF ~t.ok THEN Ok(<<>>)
    ELSE LET rows == csv_reader(t.val) IN
         IF ~rows.ok THEN Raise(rows.err)
         ELSE IF rows.val = <<>> THEN Ok(<<>>)
         ELSE load_rows(rows.val[1], rows.val, 2, <<>>)

person_row(person) ==
    <<person.name, person.email, strftime(person.birthday),
      IF person.message_id # None THEN str_int(person.message_id[1]) ELSE <<>>>>

RECURSIVE write_people(_, _)
write_people(ps, k) ==
    IF k > Len(ps) THEN <<>>
    ELSE writerow(person_row(ps[k])) \o write_people(ps, k + 1)

\* BirthdayManager.save_birthdays: the file as rewritten (mode 'w', newline='').
save_birthdays(ps) ==
    File(writerow(<<K_name, K_email, K_birthday, K_message_id>>) \o write_people(ps, 1))

(***************************************************************************)
(* json.dump / json.load of a list of strings.                             *)
(***************************************************************************)
Hex4(c) == IF c = "ñ" THEN <<"0", "0", "f", "1">> ELSE <<>>

\* json's escape of one character (ensure_ascii).
json_escape(c) ==
    IF c = "\"" THEN <<"\\", "\"">>
    ELSE IF c = "\\" THEN <<"\\", "\\">>
    ELSE IF c = "\n" THEN <<"\\", "n">>
    ELSE IF c = "\r" THEN <<"\\", "r">>
    ELSE IF Hex4(c) # <<>> THEN <<"\\", "u">> \o Hex4(c)
    ELSE <<c>>

RECURSIVE json_string_body(_, _, _)
json_string_body(s, lo, hi) ==
    IF lo > hi THEN <<>>
    ELSE IF lo = hi THEN json_escape(s[lo])
    ELSE LET mid == (lo + hi) \div 2 IN
         json_string_body(s, lo, mid) \o json_string_body(s, mid + 1, hi)

RECURSIVE json_items(_, _)
json_items(ms, k) ==
    IF k > Len(ms) THEN <<>>
    ELSE (IF k > 1 THEN <<",", " ">> ELSE <<>>)
         \o <<"\"">> \o json_string_body(ms[k], 1, Len(ms[k])) \o <<"\"">> \o json_items(ms, k + 1)

json_dumps(ms) == <<"[">> \o json_items(ms, 1) \o <<"]">>

JsonInit == [state |-> "start", cur |-> <<>>, items |-> <<>>, hex |-> <<>>, ok |-> TRUE]

json_unescape(c) ==
    IF c = "n" THEN "\n" ELSE IF c = "r" THEN "\r" ELSE c

json_step(st, c) ==
    CASE st.state = "start" ->
            IF c = "[" THEN [st EXCEPT !.state = "first"]
            ELSE IF c \in {" ", "\n"} THEN st ELSE [st EXCEPT !.ok = FALSE]
      [] st.state \in {"first", "item"} ->
            IF c = "\"" THEN [st EXCEPT !.state = "string", !.cur = <<>>]
            ELSE IF c = "]" /\ st.state = "first" THEN [st EXCEPT !.state = "end"]
            ELSE IF c \in {" ", "\n"} THEN st ELSE [st EXCEPT !.ok = FALSE]
      [] st.state = "string" ->
            IF c = "\"" THEN [st EXCEPT !.state = "after", !.items = Append(st.items, st.cur)]
            ELSE IF c = "\\" THEN [st EXCEPT !.state = "escape"]
            ELSE IF c = "\n" THEN [st EXCEPT !.ok = FALSE]
            ELSE [st EXCEPT !.cur = Append(st.cur, c)]
      [] st.state = "escape" ->
            IF c = "u" THEN [st EXCEPT !.state = "hex", !.hex = <<>>]
            ELSE IF c \in {"\"", "\\", "n", "r"}
                 THEN [st EXCEPT !.state = "string", !.cur = Append(st.cur, json_unescape(c))]
                 ELSE [st EXCEPT !.ok = FALSE]
      [] st.state = "hex" ->
            LET h == Append(st.hex, c) IN
            IF Len(h) < 4 THEN [st EXCEPT !.hex = h]
            ELSE IF h = Hex4("ñ") THEN [st EXCEPT !.state = "string", !.cur = Append(st.cur, "ñ")]
            ELSE [st EXCEPT !.ok = FALSE]
      [] st.state = "after" ->
            IF c = "," THEN [st EXCEPT !.state = "item"]
            ELSE IF c = "]" THEN [st EXCEPT !.state = "end"]
            ELSE IF c \in {" ", "\n"} THEN st ELSE [st EXCEPT !.ok = FALSE]
      [] st.state = "end" ->
            IF c \in {" ", "\n"} THEN st ELSE [st EXCEPT !.ok = FALSE]

RECURSIVE json_run(_, _, _, _)
json_run(t, lo, hi, st) ==
    IF lo > hi THEN st
    ELSE IF lo = hi THEN (IF st.ok THEN json_step(st, t[lo]) ELSE st)
    ELSE LET mid == (lo + hi) \div 2
             s1 == json_run(t, lo, mid, st)
         IN  IF s1.ok THEN json_run(t, mid + 1, hi, s1) ELSE s1

json_loads(t) ==
    LET st == json_run(t, 1, Len(t), JsonInit) IN
    IF st.ok /\ st.state = "end" THEN Ok(st.items) ELSE Raise("JSONDecodeError")

(***************************************************************************)
(* MessageManager: the message store.                                      *)
(***************************************************************************)
\* load_messages without its except clause.
load_messages_uncaught(f) ==
    LET t == read_text(f) IN
    IF ~t.ok THEN Raise(t.err) ELSE json_loads(t.val)

\* MessageManager.load_messages: only FileNotFoundError is caught.
load_messages(f) ==
    LET t == read_text(f) IN
    IF ~t.ok THEN Ok(<<>>) ELSE json_loads(t.val)

\* MessageManager.save_messages: the file as rewritten (mode 'w').
save_messages(ms) == File(json_dumps(ms))

Fallback == <<"F", "e", "l", "i", "z", " ", "c", "u", "m", "p", "l", "e", "a", "ñ", "o", "s", "!">>

\* get_message testing the index for truth ("if index and ..."): 0 counts as unset.
get_message_truthy(ms, index) ==
    IF index # None /\ index[1] # 0 /\ 0 <= index[1] /\ index[1] < Len(ms)
    THEN {[via |-> "index", text |-> ms[index[1] + 1]]}
    ELSE IF ms # <<>>
         THEN {[via |-> "random.choice", text |-> ms[k]] : k \in 1..Len(ms)}
         ELSE {[via |-> "fallback", text |-> Fallback]}

\* MessageManager.get_message: the outcomes it can return for an index.
\* via tells which return statement produced the text.
get_message(ms, index) ==
    IF index # None /\ 0 <= index[1] /\ index[1] < Len(ms)
    THEN {[via |-> "index", text |-> ms[index[1] + 1]]}
    ELSE IF ms # <<>>
         THEN {[via |-> "random.choice", text |-> ms[k]] : k \in 1..Len(ms)}
         ELSE {[via |-> "fallback", text |-> Fallback]}

(***************************************************************************)
(* The upcoming-birthdays view.                                            *)
(***************************************************************************)
\* One pass of the loop body of get_upcoming_birthdays.
upcoming_entry(person, now) ==
    LET b0 == replace_year(person.birthday, now.year) IN
    IF ~b0.ok THEN Raise(b0.err)
    ELSE LET b1 == IF date_lt(b0.val, now) THEN replace_year(b0.val, now.year + 1) ELSE b0 IN
         IF ~b1.ok THEN Raise(b1.err)
         ELSE Ok([name |-> person.name,
                  email |-> person.email,
                  days_remaining |-> toordinal(b1.val) - toordinal(now),
                  birthday |-> b1.val,
                  message_id |-> person.message_id])

RECURSIVE upcoming_loop(_, _, _, _)
upcoming_loop(ps, now, k, acc) ==
    IF k > Len(ps) THEN Ok(acc)
    ELSE LET e == upcoming_entry(ps[k], now) IN
         IF e.ok THEN upcoming_loop(ps, now, k + 1, Append(acc, e.val)) ELSE Raise(e.err)

\* An insertion that puts x before the entries with an equal key (not stable).
insert_before_ties(srt, x) ==
    LET pos == Cardinality({k \in 1..Len(srt) : srt[k].days_remaining < x.days_remaining}) IN
    SubSeq(srt, 1, pos) \o <<x>> \o SubSeq(srt, pos + 1, Len(srt))

\* Where sorted() puts x in an already sorted prefix: after every entry whose key
\* is not greater (the sort is stable).
insert_by_days(srt, x) ==
    LET pos == Cardinality({k \in 1..Len(srt) : srt[k].days_remaining <= x.days_remaining}) IN
    SubSeq(srt, 1, pos) \o <<x>> \o SubSeq(srt, pos + 1, Len(srt))

RECURSIVE sorted_by_days(_, _, _)
sorted_by_days(es, k, acc) ==
    IF k > Len(es) THEN acc ELSE sorted_by_days(es, k + 1, insert_by_days(acc, es[k]))

\* BirthdayManager.get_upcoming_birthdays with datetime.now().date() = now.
get_upcoming_birthdays(ps, now) ==
    LET up == upcoming_loop(ps, now, 1, <<>>) IN
    IF up.ok THEN Ok(sorted_by_days(up.val, 1, <<>>)) ELSE Raise(up.err)

(***************************************************************************)
(* The front end's widgets.                                                *)
(***************************************************************************)
Aleatorio == <<"A", "l", "e", "a", "t", "o", "r", "i", "o">>

\* f"Mensaje {i+1}" for i = k
mensaje_label(k) == <<"M", "e", "n", "s", "a", "j", "e", " ">> \o str_nat(k + 1)

\* The selectbox's options for a message list of length n.
message_options(n) == <<Aleatorio>> \o [k \in 1..n |-> mensaje_label(k - 1)]

\* label.split()[1]: the second whitespace-separated word.
second_word(label) ==
    LET sp == {k \in 1..Len(label) : label[k] = " "} IN
    IF sp = {} THEN Raise("IndexError")
    ELSE LET k1 == CHOOSE k \in sp : \A j \in sp : k <= j IN
         Ok(SubSeq(label, k1 + 1, Len(label)))

\* The option's number taken as the index, without the "- 1".
option_message_id_one_based(label) ==
    IF label = Aleatorio THEN Ok(None)
    ELSE LET w == second_word(label) IN
         IF ~w.ok THEN Raise(w.err)
         ELSE LET n == int_of(w.val) IN
              IF n.ok THEN Ok(Some(n.val)) ELSE Raise(n.err)

\* None if message_option == "Aleatorio" else int(message_option.split()[1]) - 1
option_message_id(label) ==
    IF label = Aleatorio THEN Ok(None)
    ELSE LET w == second_word(label) IN
         IF ~w.ok THEN Raise(w.err)
         ELSE LET n == int_of(w.val) IN
              IF n.ok THEN Ok(Some(n.val - 1)) ELSE Raise(n.err)

(***************************************************************************)
(* Inputs of the front end and of the clock.                               *)
(***************************************************************************)
T_Ana == <<"A", "n", "a">>
T_Luis == <<"L", "u", ",", " ", "\"", "L", "\"">>
T_AnaMail == <<"a", "@", "x">>
T_LuisMail == <<"l", "@", "x">>

\* What the add-person form is submitted with: name, email, date_input's date.
Forms ==
    { <<T_Ana, T_AnaMail, Date(2020, 2, 29)>>,
      <<T_Luis, T_LuisMail, Date(2021, 3, 1)>>,
      <<T_Ana, T_AnaMail, Date(1999, 3, 1)>> }

Texts == { <<"H", "i", "!">>, <<"\"", "a", "ñ", "o", "\"", "\\">> }

Todays == { Date(2024, 2, 29), Date(2025, 3, 1) }

NoDate == [year |-> 0, month |-> 0, day |-> 0]

Subject == <<"¡", "F", "e", "l", "i", "z", " ", "c", "u", "m", "p", "l", "e", "a", "ñ", "o", "s", "!">>

(***************************************************************************)
(* The script: one run per interaction of the front end.                   *)
(***************************************************************************)
\* add_person saving before it appends: the file lags one record behind.
add_person_save_first(ps, person) ==
    [people |-> Append(ps, person), file |-> save_birthdays(ps)]

\* BirthdayManager.add_person: the list and the file after the call.
add_person(ps, person) ==
    LET ps2 == Append(ps, person) IN [people |-> ps2, file |-> save_birthdays(ps2)]

\* MessageManager.add_message: the list and the file after the call.
add_message(ms, message) ==
    LET ms2 == Append(ms, message) IN [messages |-> ms2, file |-> save_messages(ms2)]

\* send_email hands one message to the relay; the relay accepts it or raises.
send_email(to_email, subject, body) == [to |-> to_email, subject |-> subject, body |-> body]

\* A comparison of the whole dates, year included.
birthday_is_today_with_year(person, now) == person.birthday = now

\* if person.birthday.month == today.month and person.birthday.day == today.day
birthday_is_today(person, now) ==
    person.birthday.month = now.month /\ person.birthday.day = now.day

Init ==
    /\ bfile = NoFile
    /\ mfile = NoFile
    /\ people = <<>>
    /\ messages = <<>>
    /\ pc = "start"
    /\ i = 0
    /\ today = NoDate
    /\ attempts = <<>>
    /\ outbox = <<>>
    /\ arg = None
    /\ ret = Ok(<<>>)

\* bd_manager = BirthdayManager(); msg_manager = MessageManager()
Construct ==
    /\ pc \in {"start", "done", "aborted"}
    /\ LET bm == load_birthdays(bfile)
           mm == load_messages(mfile)
       IN  IF ~bm.ok
           THEN /\ pc' = "aborted" /\ ret' = Raise(bm.err)
                /\ people' = <<>> /\ messages' = <<>>
           ELSE IF ~mm.ok
           THEN /\ pc' = "aborted" /\ ret' = Raise(mm.err)
                /\ people' = bm.val /\ messages' = <<>>
           ELSE /\ pc' = "loaded" /\ ret' = Ok(<<>>)
                /\ people' = bm.val /\ messages' = mm.val
    /\ i' = 0 /\ today' = NoDate /\ attempts' = <<>> /\ outbox' = <<>>
    /\ UNCHANGED <<bfile, mfile, arg>>

\* upcoming = bd_manager.get_upcoming_birthdays() and its display
ShowUpcoming ==
    /\ pc = "loaded"
    /\ \E now \in Todays :
          LET up == get_upcoming_birthdays(people, now) IN
          IF up.ok THEN pc' = "viewed" /\ ret' = ret
          ELSE pc' = "aborted" /\ ret' = Raise(up.err)
    /\ UNCHANGED <<bfile, mfile, people, messages, i, today, attempts, outbox, arg>>

\* today = datetime.now().date(), before the notifier loop
StartNotifier(now) ==
    /\ pc' = "notify" /\ i' = 1 /\ today' = now

\* if st.button("Guardar cumpleaños")
GuardarCumpleanos ==
    /\ pc = "viewed"
    /\ Len(people) < MaxPeople
    /\ \E form \in Forms, k \in 1..(Len(messages) + 1), now \in Todays :
          LET mid == option_message_id(message_options(Len(messages))[k])
              person == IF mid.ok
                        THEN NewPerson(form[1], form[2], strftime(form[3]), mid.val)
                        ELSE Raise(mid.err)
          IN  IF person.ok
              THEN /\ people' = add_person(people, person.val).people
                   /\ bfile' = add_person(people, person.val).file
                   /\ ret' = ret
                   /\ StartNotifier(now)
              ELSE /\ pc' = "aborted" /\ ret' = Raise(person.err)
                   /\ UNCHANGED <<people, bfile, i, today>>
    /\ UNCHANGED <<mfile, messages, attempts, outbox, arg>>

\* if st.button("Agregar mensaje")
AgregarMensaje ==
    /\ pc = "viewed"
    /\ Len(messages) < MaxMessages
    /\ \E text \in Texts, now \in Todays :
          /\ messages' = add_message(messages, text).messages
          /\ mfile' = add_message(messages, text).file
          /\ StartNotifier(now)
    /\ UNCHANGED <<bfile, people, attempts, outbox, arg, ret>>

\* A run in which no button was pressed.
NoButton ==
    /\ pc = "viewed"
    /\ \E now \in Todays : StartNotifier(now)
    /\ UNCHANGED <<bfile, mfile, people, messages, attempts, outbox, arg, ret>>

\* The notifier loop: a person whose birthday is not today.
NotifySkip ==
    /\ pc = "notify" /\ i <= Len(people)
    /\ ~birthday_is_today(people[i], today)
    /\ i' = i + 1
    /\ UNCHANGED <<bfile, mfile, people, messages, pc, today, attempts, outbox, arg, ret>>

\* The notifier loop: a birthday today, and the relay accepts the message.
NotifySend ==
    /\ pc = "notify" /\ i <= Len(people)
    /\ birthday_is_today(people[i], today)
    /\ \E m \in get_message(messages, people[i].message_id) :
          outbox' = Append(outbox, [mail |-> send_email(people[i].email, Subject, m.text),
                                    person |-> i, via |-> m.via])
    /\ attempts' = Append(attempts, i)
    /\ i' = i + 1
    /\ UNCHANGED <<bfile, mfile, people, messages, pc, today, arg, ret>>

\* A failed delivery that is swallowed: the loop goes on to the next person.
NotifyFail_swallowed ==
    /\ pc = "notify" /\ i <= Len(people)
    /\ birthday_is_today(people[i], today)
    /\ attempts' = Append(attempts, i)
    /\ i' = i + 1
    /\ UNCHANGED <<bfile, mfile, people, messages, pc, today, outbox, arg, ret>>

\* The notifier loop: a birthday today, and send_email raises.
NotifyFail ==
    /\ pc = "notify" /\ i <= Len(people)
    /\ birthday_is_today(people[i], today)
    /\ attempts' = Append(attempts, i)
    /\ pc' = "aborted"
    /\ ret' = Raise("SMTPException")
    /\ UNCHANGED <<bfile, mfile, people, messages, i, today, outbox, arg>>

\* The notifier loop is exhausted: the run ends.
NotifyEnd ==
    /\ pc = "notify" /\ i > Len(people)
    /\ pc' = "done"
    /\ UNCHANGED <<bfile, mfile, people, messages, i, today, attempts, outbox, arg, ret>>

Next ==
    \/ Construct
    \/ ShowUpcoming
    \/ GuardarCumpleanos
    \/ AgregarMensaje
    \/ NoButton
    \/ NotifySkip
    \/ NotifySend
    \/ NotifyFail
    \/ NotifyEnd

Spec == Init /\ [][Next]_vars

(***************************************************************************)
(* The operations taken alone, on inputs drawn from bounded sets.          *)
(***************************************************************************)
SeqsUpTo(S, n) == UNION {[1..k -> S] : k \in 0..n}

Range(q) == {q[k] : k \in 1..Len(q)}

\* Names and emails a record in memory may hold: any text.
RtNames ==
    { <<"A">>, <<>>, <<"a", ",", "b">>, <<"\"", "q">>, <<"x", "\n", "y">>, <<"x", "\r", "y">> }

RtPersons ==
    { Person(n, T_AnaMail, b, m) :
        n \in RtNames, b \in {Date(2020, 2, 29), Date(1999, 12, 31)},
        m \in {None, Some(0), Some(12)} }

RtInit ==
    /\ people \in SeqsUpTo(RtPersons, MaxRoundTrip)
    /\ bfile = NoFile /\ mfile = NoFile /\ messages = <<>>
    /\ pc = "rt_init"
    /\ i = 0 /\ today = NoDate /\ attempts = <<>> /\ outbox = <<>>
    /\ arg = None /\ ret = Ok(<<>>)

\* bd_manager.save_birthdays()
RtSave ==
    /\ pc = "rt_init"
    /\ bfile' = save_birthdays(people)
    /\ pc' = "rt_saved"
    /\ UNCHANGED <<mfile, people, messages, i, today, attempts, outbox, arg, ret>>

\* bd_manager.load_birthdays() on the file just written
RtLoad ==
    /\ pc = "rt_saved"
    /\ ret' = load_birthdays(bfile)
    /\ pc' = "rt_loaded"
    /\ UNCHANGED <<bfile, mfile, people, messages, i, today, attempts, outbox, arg>>

RtNext == RtSave \/ RtLoad

SpecRoundTrip == RtInit /\ [][RtNext]_vars

ViewPersons ==
    { Person(n, T_AnaMail, b, None) :
        n \in {T_Ana, T_Luis},
        b \in {Date(2020, 2, 29), Date(2021, 3, 1), Date(2024, 1, 15), Date(2023, 1, 5)} }

ViewTodays ==
    { Date(2024, 1, 10), Date(2024, 2, 29), Date(2024, 3, 1), Date(2025, 3, 1), Date(2023, 12, 31) }

ViewInit ==
    /\ people \in SeqsUpTo(ViewPersons, MaxView)
    /\ today \in ViewTodays
    /\ bfile = NoFile /\ mfile = NoFile /\ messages = <<>>
    /\ pc = "view_init"
    /\ i = 0 /\ attempts = <<>> /\ outbox = <<>>
    /\ arg = None /\ ret = Ok(<<>>)

\* bd_manager.get_upcoming_birthdays() when the clock reads today
ViewCompute ==
    /\ pc = "view_init"
    /\ ret' = get_upcoming_birthdays(people, today)
    /\ pc' = "view_done"
    /\ UNCHANGED <<bfile, mfile, people, messages, i, today, attempts, outbox, arg>>

ViewNext == ViewCompute

SpecView == ViewInit /\ [][ViewNext]_vars

PickTexts == Texts \cup {Fallback}

PickInit ==
    /\ messages \in SeqsUpTo(PickTexts, MaxPick)
    /\ arg \in {None} \cup {Some(k) : k \in (0 - 1)..(MaxPick + 1)}
    /\ bfile = NoFile /\ mfile = NoFile /\ people = <<>>
    /\ pc = "pick_init"
    /\ i = 0 /\ today = NoDate /\ attempts = <<>> /\ outbox = <<>>
    /\ ret = Ok(<<>>)

\* msg_manager.get_message(arg)
PickMessage ==
    /\ pc = "pick_init"
    /\ \E m \in get_message(messages, arg) : ret' = Ok(m)
    /\ pc' = "pick_done"
    /\ UNCHANGED <<bfile, mfile, people, messages, i, today, attempts, outbox, arg>>

PickNext == PickMessage

SpecPick == PickInit /\ [][PickNext]_vars

(***************************************************************************)
(* Properties.                                                             *)
(***************************************************************************)
\* The notifier pass ran to its end, or a delivery failure ended it.
PassCompleted == pc = "done"
PassFailed == pc = "aborted" /\ ret.err = "SMTPException"
InPass == pc = "notify" \/ PassCompleted \/ PassFailed

\* Month and day of the k-th record equal today's (the year is not looked at).
MatchesToday(k) ==
    people[k].birthday.month = today.month /\ people[k].birthday.day = today.day

Attempted(k) == \E j \in 1..Len(attempts) : attempts[j] = k

AttemptsOf(k) == Cardinality({j \in 1..Len(attempts) : attempts[j] = k})

\* C1 as stated: once a pass has ended, however it ended, a delivery was attempted
\* for a record if and only if its birthday's month and day are today's.
C1_AttemptedIffMatch ==
    (PassCompleted \/ PassFailed) =>
        \A k \in 1..Len(people) : Attempted(k) <=> MatchesToday(k)

\* C1 amended: a delivery is attempted for a record only if its birthday's month and
\* day are today's (the year ignored) and at most once; when no delivery fails, exactly
\* one delivery is attempted per matching record and none for a non-matching one.
C1_AttemptedOnlyIfMatch ==
    InPass =>
        /\ \A k \in 1..Len(people) :
              /\ Attempted(k) => MatchesToday(k)
              /\ AttemptsOf(k) <= 1
        /\ PassCompleted =>
              \A k \in 1..Len(people) :
                 AttemptsOf(k) = (IF MatchesToday(k) THEN 1 ELSE 0)

\* A completed pass over a matching record born in another year and a non-matching one.
C1_Witness ==
    /\ PassCompleted
    /\ \E k \in 1..Len(people) :
          MatchesToday(k) /\ Attempted(k) /\ people[k].birthday.year # today.year
    /\ \E k \in 1..Len(people) : ~MatchesToday(k)

\* What save_birthdays followed by load_birthdays must return.
SamePerson(a, b) ==
    /\ a.name = b.name /\ a.email = b.email
    /\ a.birthday = b.birthday /\ a.message_id = b.message_id

\* C2: save_birthdays then load_birthdays yields a list of the same length and order
\* with the same name, email, birthday and message reference in each record.
C2_RoundTrip ==
    pc = "rt_loaded" =>
        /\ ret.ok
        /\ Len(ret.val) = Len(people)
        /\ \A k \in 1..Len(people) : SamePerson(ret.val[k], people[k])

HasCarriageReturn(t) == \E k \in 1..Len(t) : t[k] = "\r"

\* The round trip where no name or email holds a carriage return (not a claim).
RoundTripWithoutCR ==
    (pc = "rt_loaded" /\ \A k \in 1..Len(people) :
         ~HasCarriageReturn(people[k].name) /\ ~HasCarriageReturn(people[k].email))
    => /\ ret.ok
       /\ ret.val = people

\* The first date on or after now with the month and day of b.
NextOccurrence(b, now) ==
    LET fits(y) == valid_date(y, b.month, b.day) /\ ~date_lt(Date(y, b.month, b.day), now)
        y0 == CHOOSE y \in now.year..(now.year + 8) :
                 fits(y) /\ \A z \in now.year..(y - 1) : ~fits(z)
    IN  Date(y0, b.month, b.day)

EntryOf(e, p) ==
    /\ e.name = p.name /\ e.email = p.email /\ e.message_id = p.message_id
    /\ e.birthday = NextOccurrence(p.birthday, today)
    /\ e.days_remaining = toordinal(e.birthday) - toordinal(today)
    /\ e.days_remaining >= 0
    /\ (e.days_remaining = 0 <=>
           (p.birthday.month = today.month /\ p.birthday.day = today.day))

\* C3: for every record and every today the view resolves the birthday to the first
\* date on or after today with the record's month and day, days-remaining is the
\* difference in days, is >= 0, and is 0 exactly on the birthday.
C3_NextOccurrence ==
    pc = "view_done" =>
        /\ ret.ok
        /\ \A p \in Range(people) : \E e \in Range(ret.val) : EntryOf(e, p)

IsLeapDay(p) == p.birthday.month = 2 /\ p.birthday.day = 29

\* The same for lists holding no February 29 birthday (not a claim).
NextOccurrenceExceptLeapDay ==
    (pc = "view_done" /\ \A p \in Range(people) : ~IsLeapDay(p)) =>
        /\ ret.ok
        /\ \A p \in Range(people) : \E e \in Range(ret.val) : EntryOf(e, p)

\* C4: a person born on February 29 gets a view entry with a valid date, also when
\* the target year is not a leap year; the operation does not fail.
C4_LeapDayResolves ==
    pc = "view_done" =>
        \A p \in Range(people) :
            IsLeapDay(p) =>
                /\ ret.ok
                /\ \E e \in Range(ret.val) :
                      /\ e.name = p.name /\ e.email = p.email
                      /\ valid_date(e.birthday.year, e.birthday.month, e.birthday.day)

IndexPermutations(n) ==
    {f \in [1..n -> 1..n] : \A a, b \in 1..n : f[a] = f[b] => a = b}

\* C5: the returned list holds exactly one entry per record, in ascending order of
\* days-remaining, records with equal days-remaining in their order in the person list.
C5_StableAscending ==
    (pc = "view_done" /\ ret.ok) =>
        /\ Len(ret.val) = Len(people)
        /\ \E f \in IndexPermutations(Len(people)) :
              /\ \A k \in 1..Len(people) :
                    /\ ret.val[k].name = people[f[k]].name
                    /\ ret.val[k].email = people[f[k]].email
                    /\ ret.val[k].message_id = people[f[k]].message_id
                    /\ ret.val[k].birthday.month = people[f[k]].birthday.month
                    /\ ret.val[k].birthday.day = people[f[k]].birthday.day
              /\ \A k, l \in 1..Len(people) :
                    k < l =>
                       \/ ret.val[k].days_remaining < ret.val[l].days_remaining
                       \/ /\ ret.val[k].days_remaining = ret.val[l].days_remaining
                          /\ f[k] < f[l]

\* A later record moved ahead of an earlier one, and two different records tied.
C5_Witness ==
    /\ pc = "view_done" /\ ret.ok /\ Len(people) = 3
    /\ ret.val[1].days_remaining = ret.val[2].days_remaining
    /\ ret.val[1].name # ret.val[2].name
    /\ ret.val[1].name = people[2].name /\ ret.val[2].name = people[3].name
    /\ ret.val[3].days_remaining > ret.val[2].days_remaining

InRange(index, ms) == index # None /\ 0 <= index[1] /\ index[1] < Len(ms)

\* C6: an index in range returns messages[index]; otherwise, on a non-empty list, an
\* element of the list and never the fallback greeting of the empty list; on an empty
\* list the fallback greeting, whatever the index.
C6_GetMessage ==
    pc = "pick_done" =>
        /\ InRange(arg, messages) =>
              ret.val.text = messages[arg[1] + 1] /\ ret.val.via = "index"
        /\ (~InRange(arg, messages) /\ messages # <<>>) =>
              ret.val.text \in Range(messages) /\ ret.val.via # "fallback"
        /\ messages = <<>> =>
              ret.val.text = Fallback /\ ret.val.via = "fallback"

\* An index past the end of a two-message list.
C6_Witness ==
    /\ pc = "pick_done" /\ Len(messages) = 2 /\ messages[1] # messages[2]
    /\ arg # None /\ arg[1] >= Len(messages)
    /\ ret.val.text = messages[2]

\* The indexes of the matching records up to k, in list order.
RECURSIVE MatchingUpTo(_)
MatchingUpTo(k) ==
    IF k = 0 THEN <<>>
    ELSE IF MatchesToday(k) THEN Append(MatchingUpTo(k - 1), k) ELSE MatchingUpTo(k - 1)

Delivered(k) == \E j \in 1..Len(outbox) : outbox[j].person = k

\* C7: when the delivery for a matching record fails the pass stops there: the
\* deliveries for the matching records before it are completed, none is attempted
\* for a record after it, and the person list and message list are unchanged.
C7_FailureStopsPass ==
    /\ [](InPass =>
            \* every attempt but a failed last one was delivered, in order
            /\ Len(outbox) <= Len(attempts)
            /\ \A j \in 1..Len(outbox) : outbox[j].person = attempts[j]
            /\ Len(attempts) > Len(outbox) => PassFailed
            /\ PassFailed =>
                  /\ attempts = MatchingUpTo(i)
                  /\ attempts[Len(attempts)] = i
                  /\ Len(outbox) = Len(attempts) - 1
                  /\ \A k \in 1..Len(people) :
                        /\ (k < i /\ MatchesToday(k)) => Delivered(k)
                        /\ k > i => ~Attempted(k))
    /\ [][ /\ (pc = "notify" =>
                 /\ people' = people /\ messages' = messages
                 /\ bfile' = bfile /\ mfile' = mfile)
           /\ (PassFailed => pc' # "notify" /\ pc' # "done") ]_vars

\* The second of two matching records failed after the first was delivered, with a
\* third record not reached.
C7_Witness ==
    /\ PassFailed /\ Len(people) >= 2 /\ i = 2
    /\ Len(outbox) = 1 /\ outbox[1].person = 1
    /\ attempts = <<1, 2>>

IsAppend(old, new) == Len(new) = Len(old) + 1 /\ SubSeq(new, 1, Len(old)) = old

Mirrored ==
    /\ IF bfile.exists THEN bfile = save_birthdays(people) ELSE people = <<>>
    /\ IF mfile.exists THEN mfile = save_messages(messages) ELSE messages = <<>>

\* C8: each store's file holds exactly its in-memory list; an add keeps the earlier
\* entries in place, puts the new one last and rewrites that store's file with the
\* full list, leaving the other store's list and file unchanged; nothing else changes
\* a list or a file.
C8_FilesMirrorLists ==
    /\ []Mirrored
    /\ [][ /\ \/ people' = people /\ bfile' = bfile
              \/ /\ IsAppend(people, people')
                 /\ bfile' = save_birthdays(people')
                 /\ messages' = messages /\ mfile' = mfile
           /\ \/ messages' = messages /\ mfile' = mfile
              \/ /\ IsAppend(messages, messages')
                 /\ mfile' = save_messages(messages')
                 /\ people' = people /\ bfile' = bfile ]_vars

\* Two records and a message were added.
C8_Witness ==
    /\ Len(people) = 2 /\ people[1] # people[2] /\ Len(messages) = 1
    /\ bfile.exists /\ mfile.exists /\ pc = "done"

\* C9: loading a store whose file does not exist yields an empty list and raises no
\* error, for load_birthdays and for load_messages.
C9_MissingFileLoadsEmpty ==
    /\ ret.err # "FileNotFoundError"
    /\ pc = "loaded" =>
          /\ ~bfile.exists => people = <<>>
          /\ ~mfile.exists => messages = <<>>

\* The managers were built with the record file absent and the message file present.
C9_Witness ==
    /\ pc = "loaded" /\ ~bfile.exists /\ mfile.exists
    /\ people = <<>> /\ messages # <<>>

\* C10: from empty stores, every stored message reference is unset or an index into
\* the message list, and the notifier's get_message for a set reference returned
\* messages[reference].
C10_ReferencesInRange ==
    /\ \A k \in 1..Len(people) :
          people[k].message_id = None \/ InRange(people[k].message_id, messages)
    /\ \A j \in 1..Len(outbox) :
          LET ref == people[outbox[j].person].message_id IN
          ref # None =>
             /\ outbox[j].via = "index"
             /\ outbox[j].mail.body = messages[ref[1] + 1]

\* A delivery was made for a record with a set reference.
C10_Witness ==
    \E j \in 1..Len(outbox) :
       /\ people[outbox[j].person].message_id # None
       /\ outbox[j].mail.body = messages[people[outbox[j].person].message_id[1] + 1]

====
